---- MODULE Spec2Model ----
(***************************************************************************)
(* A model of the Style-Decor booking server (src/index.js).               *)
(*                                                                         *)
(* The server is a set of Express routes over three MongoDB collections.   *)
(* Every middleware and every handler is an async function: it runs until  *)
(* its next `await` (a token verification or a store call) and other       *)
(* requests run in between.  A request is therefore a small process with   *)
(* one action per store call; what it does before its first store call     *)
(* touches nothing shared and belongs to that first action.  Several       *)
(* requests are in flight at once.                                         *)
(***************************************************************************)
EXTENDS Integers, Sequences, FiniteSets, TLC

(***************************************************************************)
(* Bounds of the model.                                                    *)
(***************************************************************************)
MaxInflight == 2   \* requests in flight at once
MaxUsers == 3      \* documents the users collection may hold
MaxBookings == 1   \* bookings ever created
MaxServices == 1   \* services ever created
MaxTime == 1       \* last value of the clock read by new Date()

Null == "null"     \* undefined / null / an absent field

Slots == 1..MaxInflight

AdminEmail == "admin@x"
StaffEmails == <<"deco1@x", "deco2@x">>
Emails == {AdminEmail, StaffEmails[1], StaffEmails[2], "cust@x"}

\* What the Authorization header carries: nothing, a token the identity
\* service rejects, or a token it verifies to an email.
Missing == "missing"
Invalid == "invalid"
Tokens == {Missing, Invalid} \cup Emails

Roles == {"user", "decorator", "admin"}
ServiceStatuses == {"pending", "assigned", "completed"}
ServiceNames == {"stage", "floral"}

GetUsers == "GET /users"
PatchUserRole == "PATCH /user/:id/role"
PostUsers == "POST /users"
PostServices == "POST /services"
PatchServices == "PATCH /services/:id"
DeleteServices == "DELETE /services/:id"
GetDecoratorServices == "GET /services/decorators"
PatchDecoratorServices == "PATCH /services/decorators/:id"
PostBooking == "POST /booking"
PatchBooking == "PATCH /booking/:id"
PatchBookingAssigned == "PATCH /booking/:id/assigned"
DeleteBooking == "DELETE /booking/:id"

\* Routes registered as (verifyJWT, verifyAdmin, handler).
AdminRoutes ==
    {GetUsers, PatchUserRole, PostServices, PatchServices, DeleteServices,
     PatchBookingAssigned}
\* Routes registered as (verifyJWT, verifyDecorator, handler).
DecoratorRoutes == {GetDecoratorServices, PatchDecoratorServices}
\* Routes registered as (verifyJWT, handler).
JwtRoutes == {PostBooking, PatchBooking, DeleteBooking}
GuardedRoutes == AdminRoutes \cup DecoratorRoutes

VARIABLES
    users,          \* usersCollection: the documents in insertion order; _id is the index
    services,       \* servicesCollection: a set of documents
    bookings,       \* bookingsCollection: a set of documents
    nextBookingId,  \* the _id the store gives the next inserted booking
    nextServiceId,  \* the _id the store gives the next inserted service
    now,            \* the clock read by new Date()
    reqs,           \* per slot: a request suspended at an await (req and the handler's locals)
    sent            \* the response the last step sent, Idle when it sent none

vars == <<users, services, bookings, nextBookingId, nextServiceId, now, reqs, sent>>

(***************************************************************************)
(* Store operations.                                                       *)
(***************************************************************************)

\* $set: the fields of `set` overwrite those of `doc`; the others are kept.
Merge(doc, set) ==
    [f \in DOMAIN doc \cup DOMAIN set |->
        IF f \in DOMAIN set THEN set[f] ELSE doc[f]]

\* usersCollection.findOne({email}): the _id of the first match, 0 when none.
FindUserByEmail(email) ==
    IF \E i \in 1..Len(users) : users[i].email = email
    THEN CHOOSE i \in 1..Len(users) :
            /\ users[i].email = email
            /\ \A j \in 1..(i - 1) : users[j].email # email
    ELSE 0

\* usersCollection.findOne(query) of POST /users: query is {email} when the
\* body carries an email and {} (which matches the first document) otherwise.
FindUserByQuery(email) ==
    IF email # Null THEN FindUserByEmail(email)
    ELSE IF Len(users) > 0 THEN 1 ELSE 0

\* usersCollection.updateOne({_id}, {$set: set}); no match, no change.
UpdateUserById(id, set) ==
    IF id \in 1..Len(users)
    THEN [users EXCEPT ![id] = Merge(users[id], set)]
    ELSE users

\* bookingsCollection.updateOne({_id}, {$set: set}); no match, no change.
UpdateBookingById(id, set) ==
    {IF b._id = id THEN Merge(b, set) ELSE b : b \in bookings}

BookingExists(id) == \E b \in bookings : b._id = id
BookingById(id) == CHOOSE b \in bookings : b._id = id

(***************************************************************************)
(* A request: req and the locals of its middlewares and handler.  pc is    *)
(* the await the request is suspended at: "handler" after the role guard's *)
(* findOne and before the handler's first store call, "h2" before the      *)
(* handler's second store call.  A response is the request with pc "sent"  *)
(* and the status code.  An id of 0 is undefined, -1 is a malformed id.    *)
(* guardRole and handlerRan record what ran: the role the guard's findOne  *)
(* saw ("none": no document; Null: the guard did not run) and whether the  *)
(* handler was entered.                                                    *)
(***************************************************************************)
Idle ==
    [pc |-> "idle", route |-> Null, token |-> Null,
     guardRole |-> Null, handlerRan |-> FALSE,
     id |-> 0, service_status |-> Null, payment_status |-> Null,
     decoratorId |-> 0, email |-> Null, createdAt |-> 0, userExists |-> FALSE,
     matched |-> FALSE, status |-> 0]

Free(r) == reqs[r].pc = "idle"
\* A new request takes the lowest free slot: the slots are interchangeable.
Takes(r) == Free(r) /\ \A s \in 1..(r - 1) : ~Free(s)
InFlight(route) == Cardinality({s \in Slots : reqs[s].route = route})

\* res.status(code).send(...) / res.send(...)
Send(q, code) == [q EXCEPT !.pc = "sent", !.status = code]

DbVars == <<users, services, bookings, nextBookingId, nextServiceId, now>>

(***************************************************************************)
(* verifyJWT (lines 20-30), verifyAdmin (48-56), verifyDecorator (58-66).  *)
(***************************************************************************)
\* decoded.email of the token, when the identity service verifies it.
DecodedEmail(token) == IF token \in Emails THEN token ELSE Null

JwtNext_Always(token) == TRUE
\* Whether verifyJWT calls next(): the header carries a token and
\* verifyIdToken does not throw.
JwtNext(token) == token # Missing /\ token # Invalid

AdminForbidden_NoRoleCheck(i) == i = 0
\* !user || user.role !== "admin", for the user of _id i (0: none found)
AdminForbidden(i) == i = 0 \/ users[i].role # "admin"

\* !user || user.role !== "decorator"
DecoratorForbidden(i) == i = 0 \/ users[i].role # "decorator"

\* A request to a route behind verifyJWT and a role guard, up to the
\* guard's findOne.
GuardedRequest(r, route, token) ==
    LET q == [Idle EXCEPT !.route = route, !.token = token]
        i == FindUserByEmail(DecodedEmail(token))
        seen == [q EXCEPT !.guardRole = IF i = 0 THEN "none" ELSE users[i].role]
        forbidden == IF route \in AdminRoutes THEN AdminForbidden(i)
                     ELSE DecoratorForbidden(i)
    IN  /\ sent = Idle
        /\ Takes(r)
        /\ route \in GuardedRoutes
        \* the model's cap on the services ever inserted
        /\ route = PostServices => nextServiceId + InFlight(PostServices) <= MaxServices
        /\ IF ~JwtNext(token)
           THEN sent' = Send(q, 401) /\ UNCHANGED reqs
           ELSE IF forbidden
           THEN sent' = Send(seen, 403) /\ UNCHANGED reqs
           ELSE reqs' = [reqs EXCEPT ![r] = [seen EXCEPT !.pc = "handler"]]
                /\ sent' = Idle
        /\ UNCHANGED DbVars

(***************************************************************************)
(* User routes.                                                            *)
(***************************************************************************)
\* GET /users (lines 70-80): two reads, no write.
HandleGetUsers(r) ==
    LET q == reqs[r]
    IN  /\ sent = Idle
        /\ q.pc = "handler"
        /\ q.route = GetUsers
        /\ sent' = Send([q EXCEPT !.handlerRan = TRUE], 200)
        /\ reqs' = [reqs EXCEPT ![r] = Idle]
        /\ UNCHANGED DbVars

\* The document POST /users inserts: the body with role, createdAt and
\* last_loggedIn overwritten (lines 88-92).  A body carries no work_status.
NewUser(email, t) ==
    [email |-> email, role |-> "user", work_status |-> Null,
     createdAt |-> t, last_loggedIn |-> t]

LoginSet_WholeUser(t) == [role |-> "user", createdAt |-> t, last_loggedIn |-> t]
\* The $set of the update POST /users makes when the user exists (lines 99-103).
LoginSet(t) == [last_loggedIn |-> t]

\* POST /users up to its findOne (lines 87-97).  The route has no guard.
PostUsersFind(r, email) ==
    LET found == FindUserByQuery(email) # 0
        inserts == Cardinality({s \in Slots :
                        reqs[s].route = PostUsers /\ ~reqs[s].userExists})
    IN  /\ sent = Idle
        /\ Takes(r)
        \* the model's cap on the users collection
        /\ ~found => Len(users) + inserts < MaxUsers
        /\ reqs' = [reqs EXCEPT ![r] =
                [Idle EXCEPT !.pc = "h2", !.route = PostUsers, !.handlerRan = TRUE,
                             !.email = email, !.createdAt = now,
                             !.userExists = found]]
        /\ sent' = Idle
        /\ UNCHANGED DbVars

\* POST /users after its findOne: updateOne when a user was found (lines
\* 98-105), insertOne otherwise (lines 107-108).
PostUsersWrite(r) ==
    LET q == reqs[r]
    IN  /\ sent = Idle
        /\ q.pc = "h2"
        /\ q.route = PostUsers
        /\ users' = IF q.userExists
                    THEN UpdateUserById(FindUserByQuery(q.email), LoginSet(now))
                    ELSE Append(users, NewUser(q.email, q.createdAt))
        /\ sent' = Send(q, 200)
        /\ reqs' = [reqs EXCEPT ![r] = Idle]
        /\ UNCHANGED <<services, bookings, nextBookingId, nextServiceId, now>>

\* The ids PATCH /user/:id/role is sent in the model: any id but the first
\* administrator's (GET /users, where a target is picked, leaves the
\* caller's own record out, line 74).
RoleTargets == 2..MaxUsers

\* PATCH /user/:id/role (lines 111-123).
HandlePatchUserRole(r, id, role) ==
    LET q == reqs[r]
    IN  /\ sent = Idle
        /\ q.pc = "handler"
        /\ q.route = PatchUserRole
        /\ users' = UpdateUserById(id, [role |-> role, work_status |-> "available"])
        /\ sent' = Send([q EXCEPT !.handlerRan = TRUE, !.id = id], 200)
        /\ reqs' = [reqs EXCEPT ![r] = Idle]
        /\ UNCHANGED <<services, bookings, nextBookingId, nextServiceId, now>>

(***************************************************************************)
(* Service routes.                                                         *)
(***************************************************************************)
\* POST /services (lines 207-211).
HandlePostServices(r, name) ==
    LET q == reqs[r]
    IN  /\ sent = Idle
        /\ q.pc = "handler"
        /\ q.route = PostServices
        /\ services' = services \cup {[_id |-> nextServiceId, service_name |-> name]}
        /\ nextServiceId' = nextServiceId + 1
        /\ sent' = Send([q EXCEPT !.handlerRan = TRUE], 200)
        /\ reqs' = [reqs EXCEPT ![r] = Idle]
        /\ UNCHANGED <<users, bookings, nextBookingId, now>>

\* PATCH /services/:id (lines 213-222).
HandlePatchServices(r, id, name) ==
    LET q == reqs[r]
    IN  /\ sent = Idle
        /\ q.pc = "handler"
        /\ q.route = PatchServices
        /\ services' = {IF s._id = id THEN Merge(s, [service_name |-> name]) ELSE s :
                            s \in services}
        /\ sent' = Send([q EXCEPT !.handlerRan = TRUE, !.id = id], 200)
        /\ reqs' = [reqs EXCEPT ![r] = Idle]
        /\ UNCHANGED <<users, bookings, nextBookingId, nextServiceId, now>>

\* DELETE /services/:id (lines 224-229).
HandleDeleteServices(r, id) ==
    LET q == reqs[r]
    IN  /\ sent = Idle
        /\ q.pc = "handler"
        /\ q.route = DeleteServices
        /\ services' = {s \in services : s._id # id}
        /\ sent' = Send([q EXCEPT !.handlerRan = TRUE, !.id = id], 200)
        /\ reqs' = [reqs EXCEPT ![r] = Idle]
        /\ UNCHANGED <<users, bookings, nextBookingId, nextServiceId, now>>

(***************************************************************************)
(* Decorator routes.                                                       *)
(***************************************************************************)
\* GET /services/decorators (lines 145-153): one read, no write.
HandleGetDecoratorServices(r) ==
    LET q == reqs[r]
    IN  /\ sent = Idle
        /\ q.pc = "handler"
        /\ q.route = GetDecoratorServices
        /\ sent' = Send([q EXCEPT !.handlerRan = TRUE], 200)
        /\ reqs' = [reqs EXCEPT ![r] = Idle]
        /\ UNCHANGED DbVars

\* PATCH /services/decorators/:id up to its first updateOne (lines 176-186,
\* 197): the booking's service_status becomes the body's.
DecoratorUpdateBooking(r, id, service_status) ==
    LET q == reqs[r]
        q1 == [q EXCEPT !.handlerRan = TRUE, !.id = id,
                        !.service_status = service_status,
                        !.matched = BookingExists(id)]
    IN  /\ sent = Idle
        /\ q.pc = "handler"
        /\ q.route = PatchDecoratorServices
        /\ bookings' = UpdateBookingById(id, [service_status |-> service_status])
        /\ IF service_status = "completed"
           THEN reqs' = [reqs EXCEPT ![r] = [q1 EXCEPT !.pc = "h2"]] /\ sent' = Idle
           ELSE reqs' = [reqs EXCEPT ![r] = Idle] /\ sent' = Send(q1, 200)
        /\ UNCHANGED <<users, services, nextBookingId, nextServiceId, now>>

\* PATCH /services/decorators/:id with "completed", its second updateOne
\* (lines 187-195): the user whose email is the caller's becomes available.
DecoratorRelease(r) ==
    LET q == reqs[r]
    IN  /\ sent = Idle
        /\ q.pc = "h2"
        /\ q.route = PatchDecoratorServices
        /\ users' = UpdateUserById(FindUserByEmail(DecodedEmail(q.token)),
                                   [work_status |-> "available"])
        /\ sent' = Send(q, 200)
        /\ reqs' = [reqs EXCEPT ![r] = Idle]
        /\ UNCHANGED <<services, bookings, nextBookingId, nextServiceId, now>>

(***************************************************************************)
(* Booking routes.  POST, PATCH and DELETE /booking sit behind verifyJWT   *)
(* alone and make one store call.                                          *)
(***************************************************************************)
NewBooking_KeepBody(id, payment_status, service_status) ==
    [_id |-> id,
     payment_status |-> IF payment_status # Null THEN payment_status ELSE "unpaid",
     service_status |-> IF service_status # Null THEN service_status ELSE "pending",
     decoratorId |-> 0, decoratorName |-> Null, decoratorEmail |-> Null]
\* The document POST /booking inserts for a body that carries the given
\* payment_status and service_status (Null: not in the body), lines 251-253.
NewBooking(id, payment_status, service_status) ==
    [_id |-> id, payment_status |-> "unpaid", service_status |-> "pending",
     decoratorId |-> 0, decoratorName |-> Null, decoratorEmail |-> Null]

\* POST /booking (lines 250-257).
PostBookingRequest(token, payment_status, service_status) ==
    LET q == [Idle EXCEPT !.route = PostBooking, !.token = token]
    IN  /\ sent = Idle
        /\ IF ~JwtNext(token)
           THEN sent' = Send(q, 401) /\ UNCHANGED <<DbVars, reqs>>
           ELSE \* the model's cap on the bookings ever inserted
                /\ nextBookingId <= MaxBookings
                /\ bookings' = bookings \cup
                       {NewBooking(nextBookingId, payment_status, service_status)}
                /\ nextBookingId' = nextBookingId + 1
                /\ sent' = Send([q EXCEPT !.handlerRan = TRUE, !.id = nextBookingId,
                                          !.payment_status = payment_status,
                                          !.service_status = service_status], 200)
                /\ UNCHANGED <<users, services, nextServiceId, now, reqs>>

\* The bodies of PATCH /booking/:id the model draws: a service_status.
\* Whatever field the body carries is $set.
PatchBodies == {[service_status |-> s] : s \in ServiceStatuses}

\* PATCH /booking/:id (lines 259-268).
PatchBookingRequest(token, id, body) ==
    LET q == [Idle EXCEPT !.route = PatchBooking, !.token = token]
    IN  /\ sent = Idle
        /\ IF ~JwtNext(token)
           THEN sent' = Send(q, 401) /\ UNCHANGED <<DbVars, reqs>>
           ELSE /\ bookings' = UpdateBookingById(id, body)
                /\ sent' = Send([q EXCEPT !.handlerRan = TRUE, !.id = id,
                                          !.matched = BookingExists(id)], 200)
                /\ UNCHANGED <<users, services, nextBookingId, nextServiceId, now, reqs>>

\* DELETE /booking/:id (lines 294-299).
DeleteBookingRequest(token, id) ==
    LET q == [Idle EXCEPT !.route = DeleteBooking, !.token = token]
    IN  /\ sent = Idle
        /\ IF ~JwtNext(token)
           THEN sent' = Send(q, 401) /\ UNCHANGED <<DbVars, reqs>>
           ELSE /\ bookings' = {b \in bookings : b._id # id}
                /\ sent' = Send([q EXCEPT !.handlerRan = TRUE, !.id = id,
                                          !.matched = BookingExists(id)], 200)
                /\ UNCHANGED <<users, services, nextBookingId, nextServiceId, now, reqs>>

\* The bodies of PATCH /booking/:id/assigned the model draws: the identity
\* of a user of the collection, a body without the three fields, and a
\* body whose decoratorId is not a well-formed id.
AssignBodies ==
    {[decoratorId |-> i, decoratorName |-> "name", decoratorEmail |-> users[i].email] :
        i \in 1..Len(users)}
    \cup {[decoratorId |-> i, decoratorName |-> Null, decoratorEmail |-> Null] :
            i \in {0, -1}}

AssignSet_NoStatus(decoratorId, decoratorName, decoratorEmail) ==
    [decoratorId |-> decoratorId, decoratorName |-> decoratorName,
     decoratorEmail |-> decoratorEmail]
\* The $set of the booking update of PATCH /booking/:id/assigned (lines 274-281).
AssignSet(decoratorId, decoratorName, decoratorEmail) ==
    [service_status |-> "assigned", decoratorId |-> decoratorId,
     decoratorName |-> decoratorName, decoratorEmail |-> decoratorEmail]

\* PATCH /booking/:id/assigned up to its first updateOne (lines 270-282).
AssignUpdateBooking(r, id, body) ==
    LET q == reqs[r]
    IN  /\ sent = Idle
        /\ q.pc = "handler"
        /\ q.route = PatchBookingAssigned
        /\ bookings' = UpdateBookingById(id,
                AssignSet(body.decoratorId, body.decoratorName, body.decoratorEmail))
        /\ reqs' = [reqs EXCEPT ![r] =
                [q EXCEPT !.pc = "h2", !.handlerRan = TRUE, !.id = id,
                          !.decoratorId = body.decoratorId,
                          !.matched = BookingExists(id)]]
        /\ sent' = Idle
        /\ UNCHANGED <<users, services, nextBookingId, nextServiceId, now>>

\* PATCH /booking/:id/assigned after its first updateOne (lines 284-291):
\* new ObjectId(decoratorId) throws on a malformed id and the handler ends
\* without a response; otherwise the user with that _id becomes in_service.
AssignUpdateDecorator(r) ==
    LET q == reqs[r]
    IN  /\ sent = Idle
        /\ q.pc = "h2"
        /\ q.route = PatchBookingAssigned
        /\ IF q.decoratorId = -1
           THEN sent' = [q EXCEPT !.pc = "threw"] /\ UNCHANGED users
           ELSE /\ users' = UpdateUserById(q.decoratorId, [work_status |-> "in_service"])
                /\ sent' = Send(q, 200)
        /\ reqs' = [reqs EXCEPT ![r] = Idle]
        /\ UNCHANGED <<services, bookings, nextBookingId, nextServiceId, now>>

(***************************************************************************)
(* The clock, the client and the specifications.                           *)
(***************************************************************************)
Tick ==
    /\ sent = Idle
    /\ now < MaxTime
    /\ now' = now + 1
    /\ UNCHANGED <<users, services, bookings, nextBookingId, nextServiceId, reqs, sent>>

\* The response leaves the server.  While it is on its way out the model
\* takes no other step: the response is observed, then the server goes on.
Deliver ==
    /\ sent # Idle
    /\ sent' = Idle
    /\ UNCHANGED <<DbVars, reqs>>

\* A fresh deployment: the database holds one administrator (no route
\* creates the first one) and nothing else.
Init ==
    /\ users = <<[email |-> AdminEmail, role |-> "admin", work_status |-> Null,
                  createdAt |-> 0, last_loggedIn |-> 0]>>
    /\ services = {}
    /\ bookings = {}
    /\ nextBookingId = 1
    /\ nextServiceId = 1
    /\ now = 0
    /\ reqs = [r \in Slots |-> Idle]
    /\ sent = Idle

\* A deployment in use: two users have registered (POST /users) and the
\* administrator has made them decorators (PATCH /user/:id/role).
InitStaffed ==
    /\ users = <<[email |-> AdminEmail, role |-> "admin", work_status |-> Null,
                  createdAt |-> 0, last_loggedIn |-> 0]>>
               \o [i \in 1..2 |->
                    [email |-> StaffEmails[i], role |-> "decorator",
                     work_status |-> "available",
                     createdAt |-> 0, last_loggedIn |-> 0]]
    /\ services = {}
    /\ bookings = {}
    /\ nextBookingId = 1
    /\ nextServiceId = 1
    /\ now = 0
    /\ reqs = [r \in Slots |-> Idle]
    /\ sent = Idle

\* The requests of sign-in and role management.
NextUsers ==
    \/ Deliver
    \/ Tick
    \/ \E r \in Slots :
        \/ \E email \in {AdminEmail, StaffEmails[1], StaffEmails[2], Null} :
                PostUsersFind(r, email)
        \/ PostUsersWrite(r)
        \/ \E token \in Tokens : GuardedRequest(r, PatchUserRole, token)
        \/ \E id \in RoleTargets, role \in Roles : HandlePatchUserRole(r, id, role)

\* The requests to the routes behind a role guard.
NextGuarded ==
    \/ Deliver
    \/ \E r \in Slots :
        \/ \E route \in GuardedRoutes, token \in Tokens : GuardedRequest(r, route, token)
        \/ HandleGetUsers(r)
        \/ \E id \in RoleTargets, role \in Roles : HandlePatchUserRole(r, id, role)
        \/ \E name \in ServiceNames : HandlePostServices(r, name)
        \/ \E id \in 1..MaxServices, name \in ServiceNames : HandlePatchServices(r, id, name)
        \/ \E id \in 1..MaxServices : HandleDeleteServices(r, id)
        \/ HandleGetDecoratorServices(r)
        \/ \E id \in 1..MaxBookings, s \in ServiceStatuses : DecoratorUpdateBooking(r, id, s)
        \/ DecoratorRelease(r)
        \/ \E id \in 1..MaxBookings, body \in AssignBodies : AssignUpdateBooking(r, id, body)
        \/ AssignUpdateDecorator(r)

\* The requests of the booking lifecycle.
NextBookings ==
    \/ Deliver
    \/ \E token \in Tokens :
        \/ \E p \in {Null, "paid"}, s \in {Null, "completed"} : PostBookingRequest(token, p, s)
        \/ \E id \in 1..MaxBookings, body \in PatchBodies : PatchBookingRequest(token, id, body)
        \/ \E id \in 1..MaxBookings : DeleteBookingRequest(token, id)
    \/ \E r \in Slots :
        \/ \E route \in {PatchBookingAssigned, PatchDecoratorServices, PatchUserRole},
              token \in Tokens : GuardedRequest(r, route, token)
        \/ \E id \in RoleTargets : HandlePatchUserRole(r, id, "decorator")
        \/ \E id \in 1..MaxBookings, s \in ServiceStatuses : DecoratorUpdateBooking(r, id, s)
        \/ DecoratorRelease(r)
        \/ \E id \in 1..MaxBookings, body \in AssignBodies : AssignUpdateBooking(r, id, body)
        \/ AssignUpdateDecorator(r)

Next == NextUsers \/ NextGuarded \/ NextBookings

\* The server under every request, and under the requests of one kind.  The
\* state space of Spec is the product of the other three, which are the
\* ones checked.
Spec == Init /\ [][Next]_vars
SpecUsers == Init /\ [][NextUsers]_vars
SpecGuarded == InitStaffed /\ [][NextGuarded]_vars
SpecBookings == InitStaffed /\ [][NextBookings]_vars

(***************************************************************************)
(* Properties.                                                             *)
(***************************************************************************)
BadTokens == {Missing, Invalid}

\* C1: a request to a guarded route with a missing or invalid token is
\* answered 401; the role guard and the handler do not run (no such request
\* is ever past verifyJWT), and the step that answers it leaves users,
\* services and bookings unchanged.
C1_Unauthorized ==
    /\ [](\A r \in Slots :
            reqs[r].route \in GuardedRoutes => reqs[r].token \notin BadTokens)
    /\ [][(/\ sent'.pc = "sent"
           /\ sent'.route \in GuardedRoutes
           /\ sent'.token \in BadTokens)
          => (/\ sent'.status = 401
              /\ sent'.guardRole = Null
              /\ ~sent'.handlerRan
              /\ UNCHANGED <<users, services, bookings>>)]_vars

C1_Witness ==
    /\ sent.pc = "sent"
    /\ sent.route = PatchBookingAssigned
    /\ sent.token = Invalid
    /\ sent.status = 401
    /\ \E r \in Slots : reqs[r].route = DeleteServices
    /\ services # {}

\* C2: a request to an admin route whose guard found no user for the
\* token's email, or a user whose role is not "admin", is answered 403; the
\* handler does not run (every request past verifyAdmin was seen as an
\* admin), and the step that answers it leaves the collections unchanged.
C2_Forbidden ==
    /\ [](\A r \in Slots :
            reqs[r].route \in AdminRoutes => reqs[r].guardRole = "admin")
    /\ [][(/\ sent'.pc = "sent"
           /\ sent'.route \in AdminRoutes
           /\ sent'.token \in Emails
           /\ sent'.guardRole # "admin")
          => (/\ sent'.status = 403
              /\ sent'.guardRole \in {"none", "user", "decorator"}
              /\ ~sent'.handlerRan
              /\ UNCHANGED <<users, services, bookings>>)]_vars

C2_Witness ==
    /\ sent.pc = "sent"
    /\ sent.route = PatchUserRole
    /\ sent.token = StaffEmails[1]
    /\ sent.guardRole = "decorator"
    /\ sent.status = 403
    /\ \E r \in Slots :
        /\ reqs[r].route \in AdminRoutes
        /\ reqs[r].token = StaffEmails[2]

\* The users collection changed in nothing but the last_loggedIn of one
\* document whose email is `email`.
OnlyLastLogin(email) ==
    /\ Len(users') = Len(users)
    /\ \E i \in 1..Len(users) :
        /\ users[i].email = email
        /\ users' = [users EXCEPT ![i] =
                        [users[i] EXCEPT !.last_loggedIn = users'[i].last_loggedIn]]

\* C3: the write of a POST /users whose email had a user document when the
\* request looked it up changes only the last_loggedIn of a document with
\* that email: role, createdAt and work_status stay, no document is
\* inserted, the other documents are unchanged.
C3_LoginOnlyTouches ==
    [][\A r \in Slots :
        (/\ reqs[r].route = PostUsers
         /\ reqs[r].pc = "h2"
         /\ reqs'[r].pc # "h2"
         /\ reqs[r].email # Null
         /\ reqs[r].userExists)
        => OnlyLastLogin(reqs[r].email)]_vars

C3_Witness ==
    /\ sent.pc = "sent"
    /\ sent.route = PostUsers
    /\ sent.status = 200
    /\ sent.userExists
    /\ sent.email # Null
    /\ LET i == FindUserByEmail(sent.email)
       IN  /\ i # 0
           /\ users[i].role \in {"decorator", "admin"}
           /\ users[i].last_loggedIn = now
           /\ users[i].last_loggedIn > users[i].createdAt

\* C4: every booking document that appears in the collection has
\* payment_status "unpaid" and service_status "pending".
C4_NewBookingDefaults ==
    [][\A b \in bookings' :
        (\A a \in bookings : a._id # b._id)
        => (b.payment_status = "unpaid" /\ b.service_status = "pending")]_vars

C4_Witness ==
    /\ sent.pc = "sent"
    /\ sent.route = PostBooking
    /\ sent.status = 200
    /\ sent.payment_status = "paid"
    /\ sent.service_status = "completed"
    /\ BookingExists(sent.id)
    /\ BookingById(sent.id).payment_status = "unpaid"
    /\ BookingById(sent.id).service_status = "pending"

\* Request r makes the first / the second store call of
\* PATCH /booking/:id/assigned in this step.
AssignFirstWrite(r) ==
    /\ reqs[r].route = PatchBookingAssigned
    /\ reqs[r].pc = "handler"
    /\ reqs'[r].pc = "h2"
AssignCompletes(r) ==
    /\ reqs[r].route = PatchBookingAssigned
    /\ reqs[r].pc = "h2"
    /\ reqs'[r].pc = "idle"
    /\ sent'.pc = "sent"

\* Booking id is assigned to the user of _id d, with that user's identity.
AssignedTo(bs, id, d) ==
    \E b \in bs :
        /\ b._id = id
        /\ b.service_status = "assigned"
        /\ b.decoratorId = d
        /\ b.decoratorName = "name"
        /\ b.decoratorEmail = users[d].email

\* C5 as stated: when PATCH /booking/:id/assigned for an existing booking B
\* and an existing user D completes, B is assigned to D and D is in_service.
C5_AssignedOnCompletion ==
    [][\A r \in Slots :
        (/\ AssignCompletes(r)
         /\ reqs[r].matched
         /\ reqs[r].decoratorId \in 1..Len(users))
        => (/\ AssignedTo(bookings', reqs[r].id, reqs[r].decoratorId)
            /\ users'[reqs[r].decoratorId].work_status = "in_service")]_vars

\* C5 as amended: the first store call leaves an existing B assigned to D,
\* status and decorator fields in one update; the second one, with which
\* the request completes, leaves an existing D in_service.
C5_AssignWrites ==
    [][\A r \in Slots :
        /\ (/\ AssignFirstWrite(r)
            /\ BookingExists(reqs'[r].id)
            /\ reqs'[r].decoratorId \in 1..Len(users))
           => (/\ reqs'[r].matched
               /\ AssignedTo(bookings', reqs'[r].id, reqs'[r].decoratorId)
               /\ users' = users)
        /\ (/\ AssignCompletes(r)
            /\ reqs[r].decoratorId \in 1..Len(users))
           => (/\ users'[reqs[r].decoratorId].work_status = "in_service"
               /\ bookings' = bookings)]_vars

\* Between the two store calls: B is assigned to D and D is not in_service.
C5_Witness ==
    \E r \in Slots :
        /\ reqs[r].route = PatchBookingAssigned
        /\ reqs[r].pc = "h2"
        /\ reqs[r].decoratorId \in 2..Len(users)
        /\ AssignedTo(bookings, reqs[r].id, reqs[r].decoratorId)
        /\ users[reqs[r].decoratorId].work_status = "available"

\* C6: when PATCH /services/decorators/:id with "completed" completes and
\* booking B shows "completed", the decorator B names in its decoratorId is
\* available, whoever the caller is.
C6_CompletedReleasesAssigned ==
    [][\A r \in Slots :
        (/\ reqs[r].route = PatchDecoratorServices
         /\ reqs[r].pc = "h2"
         /\ reqs'[r].pc = "idle"
         /\ sent'.pc = "sent")
        => \A b \in bookings' :
            (/\ b._id = reqs[r].id
             /\ b.service_status = "completed"
             /\ b.decoratorId \in 1..Len(users)
             /\ users[b.decoratorId].role = "decorator")
            => users'[b.decoratorId].work_status = "available"]_vars

\* C7: a booking's service_status changes only from pending to assigned
\* and from assigned to completed.
C7_Lifecycle ==
    [][\A a \in bookings, b \in bookings' :
        (a._id = b._id /\ a.service_status # b.service_status)
        => <<a.service_status, b.service_status>> \in
                {<<"pending", "assigned">>, <<"assigned", "completed">>}]_vars

\* C8: every booking whose service_status is "assigned" carries the three
\* decorator fields.
C8_AssignedHasDecorator ==
    \A b \in bookings :
        b.service_status = "assigned"
        => (/\ b.decoratorId # 0
            /\ b.decoratorName # Null
            /\ b.decoratorEmail # Null)

\* C9: no two user documents have the same email.
C9_EmailUnique ==
    \A i, j \in 1..Len(users) :
        users[i].email = users[j].email => i = j

\* C10: when no request is in flight, a decorator is in_service exactly
\* when some assigned booking names that decorator.
C10_BusyIffAssigned ==
    (\A r \in Slots : Free(r))
    => \A u \in 1..Len(users) :
        users[u].role = "decorator"
        => (users[u].work_status = "in_service"
            <=> \E b \in bookings :
                    /\ b.service_status = "assigned"
                    /\ b.decoratorId = u
                    /\ b.decoratorEmail = users[u].email)

====
